---------------------------- MODULE Spec2Model ----------------------------
(***************************************************************************)
(* Model of src/aws_utils.py: four wrappers around the AWS SDK             *)
(* (upload_artifacts, download_s3, get_messages, delete_message).          *)
(*                                                                         *)
(* Strings are sequences of one-character strings, so that the path        *)
(* arithmetic of upload_artifacts (join, replace, lstrip, f-string) is     *)
(* computed and not assumed.  The SDK is the environment: the outcome of   *)
(* every request (success or the exception class it raises) and the        *)
(* content of a receive response are inputs of the call.                   *)
(***************************************************************************)
EXTENDS Integers, Sequences, FiniteSets, TLC

(***************************************************************************)
(* Bounds                                                                  *)
(***************************************************************************)
\* longest history of delete_message calls that is recorded
MaxDeletes == 2
\* longest "Messages" list of a receive response
MaxMessages == 2

(***************************************************************************)
(* Python values                                                           *)
(***************************************************************************)
None == "None"

\* os.sep on a POSIX build
os_sep == "/"

\* exception classes of botocore / boto3 and their direct base class
ExcBase ==
    [ BotoCoreError           |-> "Exception",
      EndpointConnectionError |-> "BotoCoreError",
      ClientError             |-> "Exception",
      Boto3Error              |-> "Exception",
      S3UploadFailedError     |-> "Boto3Error",
      Exception               |-> "BaseException" ]

RECURSIVE isinstance(_, _)
\* Python's isinstance(e, cls) on the class hierarchy above: this is the
\* test an `except cls` clause applies to a raised exception
isinstance(exc, cls) ==
    IF exc = cls THEN TRUE
    ELSE IF exc \in DOMAIN ExcBase THEN isinstance(ExcBase[exc], cls)
    ELSE FALSE

\* what one SDK request can do: succeed, or raise a core SDK error (a
\* connection failure) or an error response of the service
SdkErrors == {"EndpointConnectionError", "ClientError"}
SdkOutcomes == {"ok"} \cup SdkErrors

\* upload_file may also raise boto3's upload-failed error
UploadErrors == SdkErrors \cup {"S3UploadFailedError"}
UploadSdkOutcomes == {"ok"} \cup UploadErrors

(***************************************************************************)
(* String primitives (str.replace, str.lstrip, os.path.join, pathlib)      *)
(***************************************************************************)
startswith(s, p) ==
    /\ Len(p) <= Len(s)
    /\ SubSeq(s, 1, Len(p)) = p

\* str.find, 1-based; 0 when sub does not occur
str_find(s, sub) ==
    LET hits == { i \in 1..(Len(s) + 1) :
                    /\ i + Len(sub) - 1 <= Len(s)
                    /\ SubSeq(s, i, i + Len(sub) - 1) = sub }
    IN  IF hits = {} THEN 0
        ELSE CHOOSE i \in hits : \A j \in hits : i <= j

\* s.replace(old, new, 1): only the leftmost occurrence is replaced
str_replace1(s, old, new) ==
    LET i == str_find(s, old)
    IN  IF i = 0 THEN s
        ELSE SubSeq(s, 1, i - 1) \o new \o SubSeq(s, i + Len(old), Len(s))

RECURSIVE str_lstrip(_, _)
\* s.lstrip(ch) for a one-character argument: every leading ch is removed
str_lstrip(s, ch) ==
    IF s # <<>> /\ Head(s) = ch THEN str_lstrip(Tail(s), ch) ELSE s

\* posixpath.join(a, b)
os_path_join(a, b) ==
    IF startswith(b, <<os_sep>>) THEN b
    ELSE IF a = <<>> \/ a[Len(a)] = os_sep THEN a \o b
    ELSE a \o <<os_sep>> \o b

RECURSIVE str_split(_, _, _)
\* s.split(ch): cur is the component being read
str_split(s, ch, cur) ==
    IF s = <<>> THEN <<cur>>
    ELSE IF Head(s) = ch THEN <<cur>> \o str_split(Tail(s), ch, <<>>)
    ELSE str_split(Tail(s), ch, Append(cur, Head(s)))

RECURSIVE str_join(_, _)
\* ch.join(parts)
str_join(parts, ch) ==
    IF parts = <<>> THEN <<>>
    ELSE IF Len(parts) = 1 THEN parts[1]
    ELSE parts[1] \o <<ch>> \o str_join(Tail(parts), ch)

\* str(pathlib.PurePosixPath(raw)): empty and "." components are dropped,
\* the leading separator is kept (exactly two leading separators stay two),
\* the empty path is "."
path_str(raw) ==
    LET comps == SelectSeq(str_split(raw, os_sep, <<>>),
                           LAMBDA c : c # <<>> /\ c # <<".">>)
        body  == str_join(comps, os_sep)
        two   == <<os_sep, os_sep>>
    IN  IF startswith(raw, two) /\ ~startswith(raw, two \o <<os_sep>>)
            THEN two \o body
        ELSE IF startswith(raw, <<os_sep>>) THEN <<os_sep>> \o body
        ELSE IF body = <<>> THEN <<".">>
        ELSE body

\* A path argument is a str or a pathlib.Path: [type, raw]
\* str(x), line 42 and line 77
py_str(x) == IF x.type = "Path" THEN path_str(x.raw) ELSE x.raw

\* os.fspath(x), applied by os.walk to its argument
os_fspath(x) == IF x.type = "Path" THEN path_str(x.raw) ELSE x.raw

(***************************************************************************)
(* The result of one call, as its caller and the SDK observe it            *)
(*   outcome  "return" or "raise"                                          *)
(*   value    the returned value (None when the call raised)               *)
(*   exc      the exception class that reached the caller, or "none"       *)
(*   reqs     the SDK requests the call issued, in order, each with the    *)
(*            outcome the SDK gave it                                      *)
(*   clients  the SDK sessions and clients the call constructed            *)
(*   walked   whether os.walk was started on the directory                 *)
(*   logs     the records the call sent to the logger                      *)
(***************************************************************************)
Returned(value, reqs, clients, walked, logs) ==
    [ outcome |-> "return", value |-> value, exc |-> "none",
      reqs |-> reqs, clients |-> clients, walked |-> walked, logs |-> logs ]

Raised(exc, reqs, clients, walked, logs) ==
    [ outcome |-> "raise", value |-> None, exc |-> exc,
      reqs |-> reqs, clients |-> clients, walked |-> walked, logs |-> logs ]

(***************************************************************************)
(* upload_artifacts                                                        *)
(***************************************************************************)
\* The directory on disk is a sequence of [sub, files], one entry per
\* directory in the top-down order of os.walk: sub is the list of directory
\* names leading from the walked directory to this one, files its file names.

RECURSIVE walk_root(_, _)
\* the root os.walk reports for a directory: the names are joined to the
\* top one by one with os.path.join
walk_root(top, sub) ==
    IF sub = <<>> THEN top
    ELSE walk_root(os_path_join(top, Head(sub)), Tail(sub))

\* os.walk(artifacts) on an existing directory: the (root, files) pairs
os_walk(artifacts, tree) ==
    LET top == os_fspath(artifacts)
    IN  [ d \in 1..Len(tree) |->
            [ root |-> walk_root(top, tree[d].sub),
              files |-> tree[d].files ] ]

RECURSIVE walk_files(_)
\* the two nested for loops, flattened: (root, file) in iteration order
walk_files(walk) ==
    IF walk = <<>> THEN <<>>
    ELSE [ i \in 1..Len(Head(walk).files) |->
             [ root |-> Head(walk).root, file |-> Head(walk).files[i] ] ]
         \o walk_files(Tail(walk))

\* line 40
upload_file_path(entry) == os_path_join(entry.root, entry.file)

\* variant of upload_s3_key: the leading separator is not stripped
upload_s3_key_nolstrip(file_path, artifacts) ==
    str_replace1(file_path, py_str(artifacts), <<>>)

\* lines 42-44
upload_s3_key(file_path, artifacts) ==
    str_lstrip(str_replace1(file_path, py_str(artifacts), <<>>), os_sep)

\* line 50: f"s3://{bucket_name}/{s3_key}"
s3_uri(bucket_name, s3_key) ==
    <<"s", "3", ":", "/", "/">> \o bucket_name \o <<"/">> \o s3_key

RECURSIVE upload_loop(_, _, _, _, _, _, _)
\* The body of the try block from the i-th file on.  outcomes[i] is what the
\* SDK does with the request for the i-th file.  An exception leaves the
\* loop at once; the URIs collected so far stay in uploaded_uris.
upload_loop(entries, i, artifacts, bucket_name, outcomes, uploaded_uris, reqs) ==
    IF i > Len(entries)
    THEN [ exc |-> "none", uploaded_uris |-> uploaded_uris, reqs |-> reqs ]
    ELSE
      LET file_path == upload_file_path(entries[i])
          s3_key    == upload_s3_key(file_path, artifacts)
          req       == [ api |-> "upload_file", Filename |-> file_path,
                         Bucket |-> bucket_name, Key |-> s3_key,
                         outcome |-> outcomes[i] ]
      IN  IF outcomes[i] # "ok"
          THEN [ exc |-> outcomes[i], uploaded_uris |-> uploaded_uris,
                 reqs |-> Append(reqs, req) ]
          ELSE upload_loop(entries, i + 1, artifacts, bucket_name, outcomes,
                           Append(uploaded_uris, s3_uri(bucket_name, s3_key)),
                           Append(reqs, req))

\* the exception class the except clause of upload_artifacts names, line 55
upload_caught == "BotoCoreError"

\* variant of upload_skip: the flag is not consulted
upload_skip_never(config) == FALSE

\* line 25: the test that skips the upload
upload_skip(config) == ~config.upload

\* variant of upload_failed_value: the URIs collected so far are returned
upload_failed_value_partial(uploaded_uris) == uploaded_uris

\* line 57: the value returned from the except clause
upload_failed_value(uploaded_uris) == <<>>

upload_artifacts(artifacts, config, tree, outcomes) ==
    LET bucket_name == config.bucket_model_artifacts
    IN  IF upload_skip(config)
        THEN Returned(<<>>, <<>>, <<>>, FALSE,
                      << [level |-> "info", msg |-> "Upload is disabled"] >>)
        ELSE
          LET clients == << "Session", "s3" >>
              run     == upload_loop(walk_files(os_walk(artifacts, tree)), 1,
                                     artifacts, bucket_name, outcomes,
                                     <<>>, <<>>)
          IN  IF run.exc = "none"
              THEN Returned(run.uploaded_uris, run.reqs, clients, TRUE,
                     << [level |-> "info", msg |-> "All files uploaded"] >>)
              ELSE IF isinstance(run.exc, upload_caught)
              THEN Returned(upload_failed_value(run.uploaded_uris), run.reqs,
                     clients, TRUE,
                     << [level |-> "error", msg |-> "Failed to upload files"] >>)
              ELSE Raised(run.exc, run.reqs, clients, TRUE, <<>>)

(***************************************************************************)
(* download_s3                                                             *)
(***************************************************************************)
\* the exception class the except clause of download_s3 names, line 84
download_caught == "BotoCoreError"

\* variant of download_s3: a failed download request is issued once more
download_s3_retry(bucket_name, s3_key, local_file, sdk_outcome) ==
    LET clients == << "s3" >>
        req     == [ api |-> "download_file", Bucket |-> bucket_name,
                     Key |-> s3_key, Filename |-> py_str(local_file),
                     outcome |-> sdk_outcome ]
    IN  IF sdk_outcome = "ok"
        THEN Returned(None, <<req>>, clients, FALSE,
               << [level |-> "info", msg |-> "Download successful"] >>)
        ELSE IF isinstance(sdk_outcome, "BotoCoreError")
        THEN Returned(None, <<req, req>>, clients, FALSE,
               << [level |-> "error", msg |-> "Download failed"] >>)
        ELSE Raised(sdk_outcome, <<req, req>>, clients, FALSE, <<>>)

download_s3(bucket_name, s3_key, local_file, sdk_outcome) ==
    LET clients == << "s3" >>
        reqs    == << [ api |-> "download_file", Bucket |-> bucket_name,
                        Key |-> s3_key, Filename |-> py_str(local_file),
                        outcome |-> sdk_outcome ] >>
    IN  IF sdk_outcome = "ok"
        THEN Returned(None, reqs, clients, FALSE,
               << [level |-> "info", msg |-> "Download successful"] >>)
        ELSE IF isinstance(sdk_outcome, download_caught)
        THEN Returned(None, reqs, clients, FALSE,
               << [level |-> "error", msg |-> "Download failed"] >>)
        ELSE Raised(sdk_outcome, reqs, clients, FALSE, <<>>)

(***************************************************************************)
(* get_messages, delete_message                                            *)
(***************************************************************************)
\* dataclass Message
Message(handle, body) == [ handle |-> handle, body |-> body ]

\* the exception class the except clause of get_messages names, line 106
receive_caught == "ClientError"

\* variant of messages_of: the two fields of Message are exchanged
messages_of_swapped(entries) ==
    [ i \in 1..Len(entries) |->
        Message(entries[i].Body, entries[i].ReceiptHandle) ]

\* line 111: one Message per entry of response["Messages"], in order
messages_of(entries) ==
    [ i \in 1..Len(entries) |->
        Message(entries[i].ReceiptHandle, entries[i].Body) ]

\* sdk_outcome is what receive_message does; response is the dict it returns
\* when it succeeds: [has_messages, Messages]
get_messages(queue_url, max_messages, wait_time_seconds, sdk_outcome, response) ==
    LET clients == << "sqs" >>
        reqs    == << [ api |-> "receive_message", QueueUrl |-> queue_url,
                        MaxNumberOfMessages |-> max_messages,
                        WaitTimeSeconds |-> wait_time_seconds,
                        outcome |-> sdk_outcome ] >>
    IN  IF sdk_outcome # "ok"
        THEN IF isinstance(sdk_outcome, receive_caught)
             THEN Returned(<<>>, reqs, clients, FALSE,
                    << [level |-> "error", msg |-> "exception"] >>)
             ELSE Raised(sdk_outcome, reqs, clients, FALSE, <<>>)
        ELSE IF ~response.has_messages
        THEN Returned(<<>>, reqs, clients, FALSE, <<>>)
        ELSE Returned(messages_of(response.Messages), reqs, clients, FALSE, <<>>)

\* variant of delete_message: the deletion request is issued twice
delete_message_twice(queue_url, receipt_handle, sdk_outcome) ==
    LET req == [ api |-> "delete_message", QueueUrl |-> queue_url,
                 ReceiptHandle |-> receipt_handle, outcome |-> sdk_outcome ]
    IN  IF sdk_outcome = "ok"
        THEN Returned(None, <<req, req>>, << "sqs" >>, FALSE, <<>>)
        ELSE Raised(sdk_outcome, <<req>>, << "sqs" >>, FALSE, <<>>)

\* variant of delete_message: an exception of the request is swallowed
delete_message_absorbing(queue_url, receipt_handle, sdk_outcome) ==
    Returned(None,
             << [ api |-> "delete_message", QueueUrl |-> queue_url,
                  ReceiptHandle |-> receipt_handle,
                  outcome |-> sdk_outcome ] >>,
             << "sqs" >>, FALSE, <<>>)

delete_message(queue_url, receipt_handle, sdk_outcome) ==
    LET clients == << "sqs" >>
        reqs    == << [ api |-> "delete_message", QueueUrl |-> queue_url,
                        ReceiptHandle |-> receipt_handle,
                        outcome |-> sdk_outcome ] >>
    IN  IF sdk_outcome = "ok"
        THEN Returned(None, reqs, clients, FALSE, <<>>)
        ELSE Raised(sdk_outcome, reqs, clients, FALSE, <<>>)

(***************************************************************************)
(* Inputs                                                                  *)
(***************************************************************************)
\* the directory argument: str and pathlib.Path, with and without a
\* trailing separator, the current directory
Artifacts ==
    { [type |-> "str",  raw |-> <<"d">>],
      [type |-> "str",  raw |-> <<"d", "/">>],
      [type |-> "str",  raw |-> <<".">>],
      [type |-> "Path", raw |-> <<".", "/", "d">>] }

\* directory contents: empty, and a file with two nested sub-directories
\* (the first repeats the name of the walked directory, and so does its file)
Trees ==
    { << [sub |-> <<>>, files |-> <<>>] >>,
      << [sub |-> <<>>, files |-> << <<"f">> >>],
         [sub |-> << <<"d">> >>, files |-> << <<"d">> >>],
         [sub |-> << <<"d">>, <<"s">> >>, files |-> << <<"g">> >>] >> }

Buckets == { <<"b">>, <<"m", "l">> }

Configs == [ upload : BOOLEAN, bucket_model_artifacts : Buckets ]

RECURSIVE count_files(_)
count_files(tree) ==
    IF tree = <<>> THEN 0 ELSE Len(Head(tree).files) + count_files(Tail(tree))

\* what the SDK does with the n upload requests of one call: a request after
\* the first failing one is never issued, so its outcome is left at "ok"
UploadOutcomes(n) ==
    { o \in [1..n -> UploadSdkOutcomes] :
        \A i, j \in 1..n : (i < j /\ o[i] # "ok") => o[j] = "ok" }

Keys == { <<"d", "/", "k">> }

LocalFiles == { [type |-> "str",  raw |-> <<"o">>],
                [type |-> "Path", raw |-> <<".", "/", "o">>] }

Queues == { "q1", "q2" }

\* (queue_url, receipt_handle) of a delete_message call
DeleteArgs == { [queue_url |-> "q1", receipt_handle |-> "h1"],
                [queue_url |-> "q2", receipt_handle |-> "h2"] }

\* (max_messages, wait_time_seconds): the defaults of line 96-97 and a
\* long poll for a batch
ReceiveParams == { [max_messages |-> 1,  wait_time_seconds |-> 1],
                   [max_messages |-> 10, wait_time_seconds |-> 20] }

\* the entries a receive response is made of
ResponseEntries ==
    { [ReceiptHandle |-> "h1", Body |-> "x"],
      [ReceiptHandle |-> "h2", Body |-> "y"] }

SeqsUpTo(S, n) == UNION { [1..k -> S] : k \in 0..n }

\* the dict receive_message returns: without a "Messages" key, or with a
\* list of entries
Responses ==
    { [has_messages |-> FALSE, Messages |-> <<>>] }
    \cup { [has_messages |-> TRUE, Messages |-> m] :
             m \in SeqsUpTo(ResponseEntries, MaxMessages) }

(***************************************************************************)
(* State                                                                   *)
(*   last          the latest call: operation, arguments (with what the    *)
(*                 environment did), result                                *)
(*   delete_calls  the delete_message calls made so far                    *)
(*   sqs_deleted   the deletion requests the queue service received so far *)
(***************************************************************************)
VARIABLES last, delete_calls, sqs_deleted

vars == << last, delete_calls, sqs_deleted >>

\* the deletion requests among the requests of one call
deletions(reqs) ==
    LET d == SelectSeq(reqs, LAMBDA r : r.api = "delete_message")
    IN  [ i \in 1..Len(d) |->
            [ QueueUrl |-> d[i].QueueUrl, ReceiptHandle |-> d[i].ReceiptHandle ] ]

Init ==
    /\ last = [ op |-> "none", args |-> <<>>,
                res |-> Returned(None, <<>>, <<>>, FALSE, <<>>) ]
    /\ delete_calls = <<>>
    /\ sqs_deleted = <<>>

UploadArtifacts ==
    \E artifacts \in Artifacts, config \in Configs, tree \in Trees :
      \E outcomes \in UploadOutcomes(count_files(tree)) :
        LET res == upload_artifacts(artifacts, config, tree, outcomes)
        IN  /\ last' = [ op |-> "upload_artifacts",
                         args |-> [ artifacts |-> artifacts, config |-> config,
                                    tree |-> tree, outcomes |-> outcomes ],
                         res |-> res ]
            /\ sqs_deleted' = sqs_deleted \o deletions(res.reqs)
            /\ UNCHANGED delete_calls

DownloadS3 ==
    \E bucket_name \in Buckets, s3_key \in Keys, local_file \in LocalFiles,
       sdk_outcome \in SdkOutcomes :
        LET res == download_s3(bucket_name, s3_key, local_file, sdk_outcome)
        IN  /\ last' = [ op |-> "download_s3",
                         args |-> [ bucket_name |-> bucket_name,
                                    s3_key |-> s3_key,
                                    local_file |-> local_file,
                                    sdk_outcome |-> sdk_outcome ],
                         res |-> res ]
            /\ sqs_deleted' = sqs_deleted \o deletions(res.reqs)
            /\ UNCHANGED delete_calls

GetMessages ==
    \E queue_url \in Queues, p \in ReceiveParams, sdk_outcome \in SdkOutcomes,
       response \in Responses :
        LET max_messages      == p.max_messages
            wait_time_seconds == p.wait_time_seconds
            res == get_messages(queue_url, max_messages, wait_time_seconds,
                                sdk_outcome, response)
        IN  \* a request that raised has no response
            /\ sdk_outcome # "ok" => response = [has_messages |-> FALSE,
                                                 Messages |-> <<>>]
            /\ last' = [ op |-> "get_messages",
                         args |-> [ queue_url |-> queue_url,
                                    max_messages |-> max_messages,
                                    wait_time_seconds |-> wait_time_seconds,
                                    sdk_outcome |-> sdk_outcome,
                                    response |-> response ],
                         res |-> res ]
            /\ sqs_deleted' = sqs_deleted \o deletions(res.reqs)
            /\ UNCHANGED delete_calls

DeleteMessage ==
    /\ Len(delete_calls) < MaxDeletes
    /\ \E a \in DeleteArgs, sdk_outcome \in SdkOutcomes :
        LET queue_url      == a.queue_url
            receipt_handle == a.receipt_handle
            res == delete_message(queue_url, receipt_handle, sdk_outcome)
        IN  /\ last' = [ op |-> "delete_message",
                         args |-> [ queue_url |-> queue_url,
                                    receipt_handle |-> receipt_handle,
                                    sdk_outcome |-> sdk_outcome ],
                         res |-> res ]
            /\ delete_calls' = Append(delete_calls,
                                      [ QueueUrl |-> queue_url,
                                        ReceiptHandle |-> receipt_handle ])
            /\ sqs_deleted' = sqs_deleted \o deletions(res.reqs)

Next ==
    \/ UploadArtifacts
    \/ DownloadS3
    \/ GetMessages
    \/ DeleteMessage

Spec == Init /\ [][Next]_vars

(***************************************************************************)
(* Properties                                                              *)
(***************************************************************************)
\* shorthands for the latest call
IsUpload   == last.op = "upload_artifacts"
IsDownload == last.op = "download_s3"
IsReceive  == last.op = "get_messages"
IsDelete   == last.op = "delete_message"

RECURSIVE tree_files(_)
\* the files of a directory tree, each with the directories above it
tree_files(tree) ==
    IF tree = <<>> THEN <<>>
    ELSE [ i \in 1..Len(Head(tree).files) |->
             [ sub |-> Head(tree).sub, file |-> Head(tree).files[i] ] ]
         \o tree_files(Tail(tree))

\* the path of a file relative to the walked directory
RelPath(f) == str_join(Append(f.sub, f.file), "/")

\* the URI of an object
ExpectedUri(bucket, key) == <<"s", "3", ":", "/", "/">> \o bucket \o <<"/">> \o key

\* the upload was enabled and the SDK raised at the request for file k,
\* after k-1 successful requests
UploadFailedAt(k) ==
    /\ IsUpload
    /\ last.args.config.upload
    /\ k \in 1..Len(last.args.outcomes)
    /\ last.args.outcomes[k] # "ok"
    /\ \A j \in 1..(k - 1) : last.args.outcomes[j] = "ok"

\* C1: whenever the SDK raises an error (core error, client error response or
\* upload-failed error) at some file of the walk, upload_artifacts returns
\* the empty list to its caller.
C1_UploadEmptyOnAnySdkError ==
    IsUpload =>
      \A k \in 1..Len(last.args.outcomes) :
        UploadFailedAt(k)
          => /\ last.res.outcome = "return"
             /\ last.res.value = <<>>

\* C2: get_messages returns the empty list when the response has no
\* "Messages" key and whenever the receive request raises (client error
\* response or core SDK error); no exception reaches the caller.
C2_ReceiveEmptyOnNoKeyOrAnyError ==
    (IsReceive /\ (\/ last.args.sdk_outcome \in SdkErrors
                   \/ ~last.args.response.has_messages))
        => /\ last.res.outcome = "return"
           /\ last.res.value = <<>>

\* C3: for every error of the download request, download_s3 returns None, no
\* exception propagates, and the success message is logged only when the
\* request completed without error.
C3_DownloadNeverRaises ==
    IsDownload
        => /\ last.res.outcome = "return"
           /\ last.res.value = None
           /\ (\E i \in 1..Len(last.res.logs) :
                   last.res.logs[i].msg = "Download successful")
                => last.args.sdk_outcome = "ok"

\* C4: with upload enabled and no SDK error, one URI is returned per file of
\* the tree, in walk order; every file is uploaded exactly once; the i-th
\* URI is s3://<bucket>/<key> with the configured bucket and the key of the
\* i-th request, which is the file's path relative to the walked directory
\* without a leading separator.
C4_UploadOneUriPerFile ==
    (/\ IsUpload
     /\ last.args.config.upload
     /\ \A i \in 1..Len(last.args.outcomes) : last.args.outcomes[i] = "ok")
        => LET files  == tree_files(last.args.tree)
               bucket == last.args.config.bucket_model_artifacts
               reqs   == last.res.reqs
               uris   == last.res.value
           IN  /\ last.res.outcome = "return"
               /\ Len(uris) = Len(reqs)
               /\ Len(reqs) = Len(files)
               /\ \A i \in 1..Len(reqs) :
                    /\ reqs[i].api = "upload_file"
                    /\ reqs[i].Bucket = bucket
                    /\ reqs[i].Key = RelPath(files[i])
                    /\ reqs[i].Key # <<>> /\ reqs[i].Key[1] # "/"
                    /\ uris[i] = ExpectedUri(bucket, reqs[i].Key)
               /\ \A i, j \in 1..Len(reqs) :
                    i # j => reqs[i].Filename # reqs[j].Filename

\* C4 witness: an error-free upload of a tree with a sub-directory from a
\* directory given without a trailing separator
C4_Witness ==
    /\ IsUpload
    /\ last.args.config.upload
    /\ last.args.artifacts = [type |-> "str", raw |-> <<"d">>]
    /\ Len(last.res.value) = 3
    /\ last.res.value[2] = <<"s", "3", ":", "/", "/", "b", "/", "d", "/", "d">>

\* C5: with the upload flag false, upload_artifacts returns the empty list,
\* constructs no session or client, does not walk the directory and issues
\* no request.
C5_UploadDisabledDoesNothing ==
    (IsUpload /\ ~last.args.config.upload)
        => /\ last.res.outcome = "return"
           /\ last.res.value = <<>>
           /\ last.res.clients = <<>>
           /\ ~last.res.walked
           /\ last.res.reqs = <<>>

\* C5 witness: a disabled upload of a directory that has files
C5_Witness ==
    /\ IsUpload
    /\ ~last.args.config.upload
    /\ Len(tree_files(last.args.tree)) > 0
    /\ last.res.value = <<>>

\* C6: every delete_message call issues exactly one deletion request with
\* the given queue and handle and no other request; the deletion requests
\* the service has received are the delete_message calls, in call order.
C6_DeleteIssuesExactlyOneRequest ==
    /\ IsDelete
         => /\ Len(last.res.reqs) = 1
            /\ last.res.reqs[1].api = "delete_message"
            /\ last.res.reqs[1].QueueUrl = last.args.queue_url
            /\ last.res.reqs[1].ReceiptHandle = last.args.receipt_handle
    /\ Len(sqs_deleted) = Len(delete_calls)
    /\ \A i \in 1..Len(delete_calls) :
         /\ sqs_deleted[i].QueueUrl = delete_calls[i].QueueUrl
         /\ sqs_deleted[i].ReceiptHandle = delete_calls[i].ReceiptHandle

\* C6 witness: two delete_message calls with different arguments were made
C6_Witness ==
    /\ IsDelete
    /\ Len(delete_calls) >= 2
    /\ delete_calls[1] # delete_calls[2]
    /\ Len(sqs_deleted) >= 2

\* C7 as stated: delete_message returns normally whatever the deletion
\* request raises.
C7_DeleteAbsorbsErrors ==
    IsDelete => last.res.outcome = "return"

\* C7 amended: an error raised by the deletion request is not handled by
\* delete_message; it reaches the caller unchanged, and delete_message
\* returns (None) exactly when the request succeeded.
C7_DeletePropagatesErrors ==
    IsDelete
        => IF last.args.sdk_outcome = "ok"
           THEN last.res.outcome = "return" /\ last.res.value = None
           ELSE last.res.outcome = "raise"
                /\ last.res.exc = last.args.sdk_outcome

\* C7 witness: a deletion request raised
C7_Witness ==
    /\ IsDelete
    /\ last.args.sdk_outcome \in SdkErrors
    /\ last.res.exc \in SdkErrors

\* C8: when the response has a "Messages" list, get_messages returns one
\* Message per entry, in order, with handle = ReceiptHandle and body = Body;
\* get_messages issues exactly one receive request and no deletion request.
C8_ReceiveMapsEntries ==
    IsReceive
        => /\ Len(last.res.reqs) = 1
           /\ last.res.reqs[1].api = "receive_message"
           /\ deletions(last.res.reqs) = <<>>
           /\ (last.args.sdk_outcome = "ok" /\ last.args.response.has_messages)
                => LET entries == last.args.response.Messages
                       msgs    == last.res.value
                   IN  /\ last.res.outcome = "return"
                       /\ Len(msgs) = Len(entries)
                       /\ \A i \in 1..Len(entries) :
                            /\ msgs[i].handle = entries[i].ReceiptHandle
                            /\ msgs[i].body = entries[i].Body

\* C8 witness: a response with two different entries was received
C8_Witness ==
    /\ IsReceive
    /\ last.args.sdk_outcome = "ok"
    /\ last.args.response.has_messages
    /\ Len(last.res.value) = 2
    /\ last.res.value[1] # last.res.value[2]

\* C9: no call retries: upload_artifacts issues at most one upload request
\* per file, the other three operations issue exactly one request of their
\* kind, and a failed request is the last request of its call.
C9_NoRetry ==
    /\ IsUpload
         => /\ Len(last.res.reqs) <= Len(tree_files(last.args.tree))
            /\ \A i, j \in 1..Len(last.res.reqs) :
                 /\ last.res.reqs[i].api = "upload_file"
                 /\ i # j => last.res.reqs[i].Filename # last.res.reqs[j].Filename
    /\ IsDownload
         => Len(last.res.reqs) = 1 /\ last.res.reqs[1].api = "download_file"
    /\ IsReceive
         => Len(last.res.reqs) = 1 /\ last.res.reqs[1].api = "receive_message"
    /\ IsDelete
         => Len(last.res.reqs) = 1 /\ last.res.reqs[1].api = "delete_message"
    /\ \A i \in 1..Len(last.res.reqs) :
         last.res.reqs[i].outcome # "ok" => i = Len(last.res.reqs)

\* C9 witness: a call whose request failed
C9_Witness ==
    /\ IsDownload
    /\ last.args.sdk_outcome = "EndpointConnectionError"
    /\ Len(last.res.reqs) = 1

\* C10: when the request for the k-th file raises a caught SDK error (a core
\* SDK error), the k-1 earlier files have been uploaded and stay uploaded,
\* no request follows the k-th, and the empty list is returned.
C10_UploadStopsAtFirstFailure ==
    IsUpload =>
      \A k \in 1..Len(last.args.outcomes) :
      (UploadFailedAt(k) /\ isinstance(last.args.outcomes[k], "BotoCoreError"))
        => LET files == tree_files(last.args.tree)
               reqs  == last.res.reqs
           IN  /\ Len(reqs) = k
               /\ \A j \in 1..k :
                    /\ reqs[j].api = "upload_file"
                    /\ reqs[j].Key = RelPath(files[j])
                    /\ reqs[j].outcome = (IF j < k THEN "ok"
                                          ELSE last.args.outcomes[k])
               /\ last.res.outcome = "return"
               /\ last.res.value = <<>>

\* C10 witness: the empty list was returned after two files were uploaded
C10_Witness ==
    /\ UploadFailedAt(3)
    /\ isinstance(last.args.outcomes[3], "BotoCoreError")
    /\ last.res.value = <<>>
    /\ last.res.reqs[1].outcome = "ok"
    /\ last.res.reqs[2].outcome = "ok"

=============================================================================
